---------------------------- MODULE Spec2Model ----------------------------
(***************************************************************************)
(* incbackup: generation-based incremental backup.                         *)
(*                                                                         *)
(* The module models                                                       *)
(*   - the copy-or-hardlink decision (files.rs LinkOrCopyFileHandler::file *)
(*     and main.rs copy_or_hardlink_files), specification SpecDecide;      *)
(*   - the directory walk handle_files_recursive with its three visitors   *)
(*     (files.rs), specification SpecWalk;                                 *)
(*   - the run of main (main.rs) over a backup root that earlier runs have *)
(*     filled, specification SpecRuns.                                     *)
(*                                                                         *)
(* A path is a sequence of names.  A SystemTime is an integer number of    *)
(* ticks relative to UNIX_EPOCH (TicksPerSec ticks to the second, negative *)
(* before the epoch).  The Result of Metadata::modified() is OkTime(t) or    *)
(* NoTime (the Err case).                                                  *)
(***************************************************************************)
EXTENDS Integers, Sequences, FiniteSets, TLC

VARIABLES
    \* ---- SpecDecide: one presentation of a file to the decision
    dIn,            \* the inputs of the decision, or NoInput
    dOut,           \* "none" | "COPY" | "HARDLINK"
    dBy,            \* "none" | "handler" | "main": which implementation decided
    \* ---- SpecWalk: one call of handle_files_recursive
    tree,           \* the source tree: path relative to the root -> kind
    src_base_dir,   \* the walked root, an absolute path (<<>> is "/")
    excluded,       \* the exclusion set, a set of bare names
    handler,        \* the visitor: its kind, configuration and counters
    dest,           \* the destination file system: [dirs, files]
    dirs,           \* the work-list, a stack of pending directories
    iter,           \* the read_dir iteration in progress, or NoIter
    calls,          \* history: the visitor calls made, in order
    reads,          \* history: the directories read_dir was called on
    raised,         \* history: the errors the steps of the walk returned
    result,         \* Running, or what the walk returned
    \* ---- the file systems and the clock, for what spans several runs
    clock,          \* the time now, in ticks
    copy_keeps_mtime, \* whether std::fs::copy of this platform keeps the time
    srcMeta,        \* source file -> its length and modification time now
    stored,         \* stored copy (absolute path) -> its length and time
    firstMeta,      \* history: source file -> its metadata when run 1 copied it
    phase,          \* where the sequence of runs stands
    \* ---- SpecRuns: runs of main over one backup root
    root,           \* the names of the directories in backup_path
    gens,           \* directory name -> (relative path -> stored FileMeta)
    run,            \* main's position and locals
    runlog,         \* history: the file operations of the current run
    rootAtStart,    \* history: what get_dirs listed in the current run
    renamed,        \* history: the current run renamed its working directory
    nruns           \* the number of runs started

decVars == <<dIn, dOut, dBy>>

walkVars == <<tree, src_base_dir, excluded, handler, dest, dirs, iter, calls,
              reads, raised, result>>

fsVars == <<clock, copy_keeps_mtime, srcMeta, stored, firstMeta, phase>>

runVars == <<root, gens, run, runlog, rootAtStart, renamed, nruns>>

vars == <<dIn, dOut, dBy, tree, src_base_dir, excluded, handler, dest, dirs,
          iter, calls, reads, raised, result, clock, copy_keeps_mtime,
          srcMeta, stored, firstMeta, phase, root, gens, run, runlog,
          rootAtStart, renamed, nruns>>

-----------------------------------------------------------------------------
(* Bounds of the model *)

TicksPerSec == 2
PreEpochTicks == 1
MaxTick == 5
MaxLen == 2
MaxMinDiff == 2
MaxEntries == 3
MaxScanEntries == 5
MaxDepth == 3
MaxRuns == 3

-----------------------------------------------------------------------------
(* Time *)

OkTime(t) == [ok |-> TRUE, t |-> t]
NoTime == [ok |-> FALSE, t |-> 0]
UNIX_EPOCH == 0
Ticks == (0 - PreEpochTicks)..MaxTick
Lens == 1..MaxLen
NoInput == "NoInput"

\* SystemTime::duration_since(UNIX_EPOCH): Err when t is earlier than the epoch
duration_since_epoch(t) ==
    IF t >= UNIX_EPOCH THEN [ok |-> TRUE, ticks |-> t - UNIX_EPOCH]
    ELSE [ok |-> FALSE, ticks |-> 0]

\* Duration::as_secs: the whole seconds of a duration
as_secs(d) == d \div TicksPerSec

\* diff_secs (files.rs and main.rs hold the same text)
diff_secs(t1, t2) ==
    LET d1 == duration_since_epoch(t1)
        d2 == duration_since_epoch(t2)
    IN  IF ~d1.ok \/ ~d2.ok THEN [ok |-> FALSE, secs |-> 0]
        ELSE LET seconds1 == as_secs(d1.ticks)
                 seconds2 == as_secs(d2.ticks)
             IN  IF seconds1 > seconds2
                 THEN [ok |-> TRUE, secs |-> seconds1 - seconds2]
                 ELSE [ok |-> TRUE, secs |-> seconds2 - seconds1]

\* Result::unwrap_or
unwrap_or(r, dflt) == IF r.ok THEN r.t ELSE dflt

-----------------------------------------------------------------------------
(* The copy-or-hardlink decision *)

\* LinkOrCopyFileHandler::file, lines 58-84: TRUE is copy, FALSE is hardlink.
\* src_modified is the Result of meta.modified(): OkTime(t) or NoTime.
LinkOrCopyDecision(prev_files, prev_path, src_len, src_modified, min_diff_secs) ==
    IF prev_path \in DOMAIN prev_files
    THEN LET prev_meta == prev_files[prev_path]
         IN  IF src_len = prev_meta.len
             THEN LET d == diff_secs(unwrap_or(src_modified, UNIX_EPOCH),
                                     prev_meta.modified)
                  IN  IF d.ok THEN d.secs >= min_diff_secs ELSE TRUE
             ELSE TRUE
    ELSE TRUE

\* copy_or_hardlink_files, lines 377-403: src_meta is a FileMeta, whose
\* modified field is a SystemTime (never an Err).
MainCopyDecision(prev_files, prev_path, src_meta, min_diff_secs) ==
    IF prev_path \in DOMAIN prev_files
    THEN LET prev_meta == prev_files[prev_path]
         IN  IF src_meta.len = prev_meta.len
             THEN LET d == diff_secs(src_meta.modified, prev_meta.modified)
                  IN  IF d.ok THEN d.secs >= min_diff_secs ELSE TRUE
             ELSE TRUE
    ELSE TRUE

Verdict(copy) == IF copy THEN "COPY" ELSE "HARDLINK"


-----------------------------------------------------------------------------
(* Paths *)

Parent(p) == SubSeq(p, 1, Len(p) - 1)
FileName(p) == p[Len(p)]
IsPrefix(p, q) == Len(p) <= Len(q) /\ SubSeq(q, 1, Len(p)) = p
Prefixes(p) == {SubSeq(p, 1, n) : n \in 0..Len(p)}

\* dest_dir_from_src_leaf_dir: Some(dest/leaf of src), or None when src has
\* no parent
dest_dir_from_src_leaf_dir(src, dst) ==
    IF src # <<>> THEN [some |-> TRUE, buf |-> dst \o <<FileName(src)>>]
    ELSE [some |-> FALSE, buf |-> dst]

\* main, lines 143-149 and 152-158: the sub-directory of a generation that
\* mirrors one source directory
LeafDirUnder(src, base) ==
    LET r == dest_dir_from_src_leaf_dir(src, base)
    IN  IF r.some THEN r.buf ELSE base

-----------------------------------------------------------------------------
(* The visitors of files.rs *)

NoErr == [step |-> "none", path |-> <<>>]
Running == [tag |-> "running", err |-> NoErr]
ReturnedOk == [tag |-> "Ok", err |-> NoErr]
Panicked == [tag |-> "panic", err |-> NoErr]

\* a walk that logs the error of a step and goes on with the next entry
QuestionMark_Continue(e) == [tag |-> "running", err |-> NoErr]

\* the ? operator of handle_files_recursive: the error is returned at once
QuestionMark(e) == [tag |-> "Err", err |-> e]

NoFiles == [k \in {} |-> 0]

\* a visitor as its caller constructs it
NewHandler(kind, src, dest_dir, prev_dir, prev_files, min_diff_secs) ==
    [kind |-> kind, src_base_dir |-> src, dest_dir |-> dest_dir,
     prev_dir |-> prev_dir, prev_files |-> prev_files,
     min_diff_secs |-> min_diff_secs,
     bytes_copied |-> 0, files_copied |-> 0, files |-> NoFiles]

Event(op, path, did, n, parent_ok) ==
    [op |-> op, path |-> path, did |-> did, n |-> n, parent_ok |-> parent_ok]

\* make_dir: io is what create_dir_all answers when it is called
make_dir(d, rel, dest_dir, io) ==
    LET dir_to_create == dest_dir \o rel
    IN  IF dir_to_create \in d.dirs THEN [ok |-> TRUE, dest |-> d]
        ELSE IF io = "ok"
             THEN [ok |-> TRUE,
                   dest |-> [d EXCEPT !.dirs = @ \cup Prefixes(dir_to_create)]]
             ELSE [ok |-> FALSE, dest |-> d]

\* std::fs::copy succeeds only into an existing directory
CopySucceeds(d, dest_path, io) == io = "ok" /\ Parent(dest_path) \in d.dirs

\* std::fs::hard_link succeeds only into an existing directory, at a free name
LinkSucceeds(d, dest_path, io) ==
    io = "ok" /\ Parent(dest_path) \in d.dirs /\ dest_path \notin DOMAIN d.files

\* lines 88-93 and 133-138: a successful copy of n bytes is counted
CopyOk(h, n) ==
    [h EXCEPT !.bytes_copied = @ + n, !.files_copied = @ + 1]

\* a hardlink counted as a file copied
LinkOk_Counted(h) == [h EXCEPT !.files_copied = @ + 1]

\* lines 101-106: a successful hardlink is not counted
LinkOk(h) == h

\* lines 86-98 and 132-143: copy src to dest_path
CopyBranch(h, d, rel, dest_path, len, io) ==
    IF CopySucceeds(d, dest_path, io)
    THEN [ok |-> TRUE, panic |-> FALSE, handler |-> CopyOk(h, len),
          dest |-> [d EXCEPT !.files =
                       (dest_path :> [how |-> "copy", of |-> h.src_base_dir \o rel])
                       @@ @],
          event |-> Event("file", rel, "copied", len,
                          Parent(dest_path) \in d.dirs)]
    ELSE [ok |-> FALSE, panic |-> FALSE, handler |-> h, dest |-> d,
          event |-> Event("file", rel, "copy_failed", 0,
                          Parent(dest_path) \in d.dirs)]

\* lines 99-112: hardlink prev_path to dest_path
LinkBranch(h, d, rel, prev_path, dest_path, io) ==
    IF LinkSucceeds(d, dest_path, io)
    THEN [ok |-> TRUE, panic |-> FALSE, handler |-> LinkOk(h),
          dest |-> [d EXCEPT !.files =
                       (dest_path :> [how |-> "link", of |-> prev_path]) @@ @],
          event |-> Event("file", rel, "linked", 0,
                          Parent(dest_path) \in d.dirs)]
    ELSE [ok |-> FALSE, panic |-> FALSE, handler |-> h, dest |-> d,
          event |-> Event("file", rel, "link_failed", 0,
                          Parent(dest_path) \in d.dirs)]

\* CollectorFileHandler::file: modified().unwrap() panics on Err
CollectorFile(h, d, rel, meta) ==
    IF meta.modified.ok
    THEN [ok |-> TRUE, panic |-> FALSE,
          handler |-> [h EXCEPT !.files =
                          ((h.src_base_dir \o rel) :>
                              [len |-> meta.len, modified |-> meta.modified.t])
                          @@ @],
          dest |-> d, event |-> Event("file", rel, "collected", 0, TRUE)]
    ELSE [ok |-> FALSE, panic |-> TRUE, handler |-> h, dest |-> d,
          event |-> Event("file", rel, "panicked", 0, TRUE)]

\* CopyFileHandler::file
CopyFile(h, d, rel, meta, io) ==
    CopyBranch(h, d, rel, h.dest_dir \o rel, meta.len, io)

\* LinkOrCopyFileHandler::file
LinkOrCopyFile(h, d, rel, meta, io) ==
    LET dest_path == h.dest_dir \o rel
        prev_path == h.prev_dir \o rel
        copy == LinkOrCopyDecision(h.prev_files, prev_path, meta.len,
                                   meta.modified, h.min_diff_secs)
    IN  IF copy THEN CopyBranch(h, d, rel, dest_path, meta.len, io)
        ELSE LinkBranch(h, d, rel, prev_path, dest_path, io)

\* FileHandler::file, by the kind of the visitor
HandlerFile(h, d, rel, meta, io) ==
    CASE h.kind = "collector" -> CollectorFile(h, d, rel, meta)
      [] h.kind = "copy" -> CopyFile(h, d, rel, meta, io)
      [] h.kind = "linkorcopy" -> LinkOrCopyFile(h, d, rel, meta, io)

\* FileHandler::dir, by the kind of the visitor
HandlerDir(h, d, rel, io) ==
    IF h.kind = "collector"
    THEN [ok |-> TRUE, dest |-> d, event |-> Event("dir", rel, "ok", 0, TRUE)]
    ELSE LET r == make_dir(d, rel, h.dest_dir, io)
         IN  [ok |-> r.ok, dest |-> r.dest,
              event |-> Event("dir", rel, IF r.ok THEN "ok" ELSE "failed", 0,
                              TRUE)]

-----------------------------------------------------------------------------
(* handle_files_recursive *)

Names == {"a", "b"}
Kinds == {"file", "dir", "other"}
NoIter == [on |-> FALSE, path |-> <<>>, rest |-> {}]
IoOutcomes == {"ok", "err"}
\* what entry.metadata() may answer for a regular file
WalkMetas ==
    {[len |-> 1, modified |-> OkTime(0)],
     [len |-> MaxLen, modified |-> OkTime(MaxTick)],
     [len |-> 1, modified |-> NoTime]}

\* what read_dir lists for a directory of the tree
Children(t, p) == {q \in DOMAIN t : Len(q) = Len(p) + 1 /\ Parent(q) = p}

\* the exclusion set matched against the path relative to the root, which
\* is a bare name for the entries of the root only
IsExcluded_RelativePath(excl, q) == Len(q) = 1 /\ q[1] \in excl

\* line 184: excluded.contains(&entry.file_name()), the bare name
IsExcluded(excl, q) == FileName(q) \in excl

\* meta.is_dir() and meta.is_file(): DirEntry::metadata does not follow links
is_dir(kind) == kind = "dir"

\* a walk whose else branch takes whatever is not a directory for a file
is_file_AnythingElse(kind) == kind # "dir"

is_file(kind) == kind = "file"

\* a work-list used as a queue: the directory pushed first is taken
PopIndex_Queue(stack) == 1

\* the work-list is a stack: pop takes the directory pushed last
PopIndex(stack) == Len(stack)

RemoveAt(stack, i) ==
    SubSeq(stack, 1, i - 1) \o SubSeq(stack, i + 1, Len(stack))

\* the for loop over one read_dir ends when its entries are used up
IterAfter(it, e) ==
    IF it.rest \ {e} = {} THEN NoIter ELSE [it EXCEPT !.rest = @ \ {e}]

\* let Some(path) = dirs.pop(); read_dir(path) answers a listing
ReadDir ==
    /\ result = Running /\ ~iter.on /\ dirs # <<>>
    /\ LET i == PopIndex(dirs)
           path == dirs[i]
       IN  /\ dirs' = RemoveAt(dirs, i)
           /\ reads' = Append(reads, path)
           /\ iter' = IF Children(tree, path) = {} THEN NoIter
                      ELSE [on |-> TRUE, path |-> path,
                            rest |-> Children(tree, path)]
    /\ UNCHANGED <<tree, src_base_dir, excluded, handler, dest, calls, raised,
                   result>>
    /\ UNCHANGED <<decVars, fsVars, runVars>>

\* read_dir(path)? answers an error
ReadDirFails ==
    /\ result = Running /\ ~iter.on /\ dirs # <<>>
    /\ LET i == PopIndex(dirs)
           e == [step |-> "read_dir", path |-> dirs[i]]
       IN  /\ dirs' = RemoveAt(dirs, i)
           /\ reads' = Append(reads, dirs[i])
           /\ raised' = Append(raised, e)
           /\ result' = QuestionMark(e)
    /\ UNCHANGED <<tree, src_base_dir, excluded, handler, dest, calls, iter>>
    /\ UNCHANGED <<decVars, fsVars, runVars>>

\* entry? answers an error
EntryFails ==
    /\ result = Running /\ iter.on
    /\ \E q \in iter.rest :
         LET e == [step |-> "entry", path |-> q]
         IN  /\ iter' = IterAfter(iter, q)
             /\ raised' = Append(raised, e)
             /\ result' = QuestionMark(e)
    /\ UNCHANGED <<tree, src_base_dir, excluded, handler, dest, dirs, calls,
                   reads>>
    /\ UNCHANGED <<decVars, fsVars, runVars>>

\* entry.metadata()? answers an error
MetadataFails ==
    /\ result = Running /\ iter.on
    /\ \E q \in iter.rest :
         LET e == [step |-> "metadata", path |-> q]
         IN  /\ iter' = IterAfter(iter, q)
             /\ raised' = Append(raised, e)
             /\ result' = QuestionMark(e)
    /\ UNCHANGED <<tree, src_base_dir, excluded, handler, dest, dirs, calls,
                   reads>>
    /\ UNCHANGED <<decVars, fsVars, runVars>>

\* the entry's name is in the exclusion set
SkipExcluded ==
    /\ result = Running /\ iter.on
    /\ \E q \in iter.rest :
         /\ IsExcluded(excluded, q)
         /\ iter' = IterAfter(iter, q)
    /\ UNCHANGED <<tree, src_base_dir, excluded, handler, dest, dirs, calls,
                   reads, raised, result>>
    /\ UNCHANGED <<decVars, fsVars, runVars>>

\* meta.is_dir(): handler.dir(..)?, then the directory is pushed
VisitDir ==
    /\ result = Running /\ iter.on
    /\ \E q \in iter.rest, io \in IoOutcomes :
         /\ ~IsExcluded(excluded, q)
         /\ is_dir(tree[q])
         /\ LET r == HandlerDir(handler, dest, q, io)
                e == [step |-> "dir", path |-> q]
            IN  /\ dest' = r.dest
                /\ calls' = Append(calls, r.event)
                /\ iter' = IterAfter(iter, q)
                /\ IF r.ok
                   THEN /\ dirs' = Append(dirs, q)
                        /\ UNCHANGED <<raised, result>>
                   ELSE /\ raised' = Append(raised, e)
                        /\ result' = QuestionMark(e)
                        /\ UNCHANGED dirs
    /\ UNCHANGED <<tree, src_base_dir, excluded, handler, reads>>
    /\ UNCHANGED <<decVars, fsVars, runVars>>

\* meta.is_file(): handler.file(..)?
VisitFile ==
    /\ result = Running /\ iter.on
    /\ \E q \in iter.rest, io \in IoOutcomes, meta \in WalkMetas :
         /\ ~IsExcluded(excluded, q)
         /\ ~is_dir(tree[q]) /\ is_file(tree[q])
         /\ LET r == HandlerFile(handler, dest, q, meta, io)
                e == [step |-> "file", path |-> q]
            IN  /\ handler' = r.handler
                /\ dest' = r.dest
                /\ calls' = Append(calls, r.event)
                /\ iter' = IterAfter(iter, q)
                /\ IF r.ok THEN UNCHANGED <<raised, result>>
                   ELSE IF r.panic
                        THEN /\ result' = Panicked
                             /\ UNCHANGED raised
                        ELSE /\ raised' = Append(raised, e)
                             /\ result' = QuestionMark(e)
    /\ UNCHANGED <<tree, src_base_dir, excluded, dirs, reads>>
    /\ UNCHANGED <<decVars, fsVars, runVars>>

\* neither a directory nor a regular file: nothing is done
SkipOther ==
    /\ result = Running /\ iter.on
    /\ \E q \in iter.rest :
         /\ ~IsExcluded(excluded, q)
         /\ ~is_dir(tree[q]) /\ ~is_file(tree[q])
         /\ iter' = IterAfter(iter, q)
    /\ UNCHANGED <<tree, src_base_dir, excluded, handler, dest, dirs, calls,
                   reads, raised, result>>
    /\ UNCHANGED <<decVars, fsVars, runVars>>

\* the work-list is empty: Ok(())
ReturnOk ==
    /\ result = Running /\ ~iter.on /\ dirs = <<>>
    /\ result' = ReturnedOk
    /\ UNCHANGED <<tree, src_base_dir, excluded, handler, dest, dirs, iter,
                   calls, reads, raised>>
    /\ UNCHANGED <<decVars, fsVars, runVars>>


-----------------------------------------------------------------------------
(* main.rs: the names of the generations *)

\* The name of a directory of the backup root is the text of a timestamp
\* (whole seconds) followed by a tail, which is empty in a name that
\* chrono's "%Y-%m-%d %H-%M-%S" wrote.
DirName(stamp, tail) == [stamp |-> stamp, tail |-> tail]

\* chrono::Local::now().format("%Y-%m-%d %H-%M-%S"): whole seconds
orig_name(now) == DirName(now \div TicksPerSec, "")

\* lines 94-95: the name with "-inprogress" pushed on it
progress_name(orig) == DirName(orig.stamp, "-inprogress")

\* a parser that stops at the end of the format and ignores what follows
parse_from_str_Prefix(name) == [ok |-> TRUE, date |-> name.stamp]

\* NaiveDateTime::parse_from_str(name, "%Y-%m-%d %H-%M-%S"): trailing text is
\* an error
parse_from_str(name) ==
    IF name.tail = "" THEN [ok |-> TRUE, date |-> name.stamp]
    ELSE [ok |-> FALSE, date |-> 0]

\* NaiveDate::from_ymd(1, 1, 1).and_hms(0, 0, 0): before every time of the model
YearOne == 0 - 1

\* get_dirs: date -> entry, for the entries whose name parses
get_dirs(listing) ==
    [d \in {parse_from_str(n).date : n \in {m \in listing : parse_from_str(m).ok}}
       |-> CHOOSE n \in listing : parse_from_str(n).ok /\ parse_from_str(n).date = d]

\* lines 76-85: the fold over the keys, in whatever order the map yields them
RECURSIVE latest_date(_, _)
latest_date(keys, latest) ==
    IF keys = {} THEN latest
    ELSE LET key == CHOOSE k \in keys : TRUE
         IN  latest_date(keys \ {key}, IF key > latest THEN key ELSE latest)

NoName == DirName(0, "none")
None == [some |-> FALSE, name |-> NoName]
Some(n) == [some |-> TRUE, name |-> n]

\* line 89: date_dirs.get(&latest_date)
maybe_prev_base_dir(date_dirs) ==
    LET latest == latest_date(DOMAIN date_dirs, YearOne)
    IN  IF latest \in DOMAIN date_dirs THEN Some(date_dirs[latest]) ELSE None

\* main is not running
Idle ==
    [pc |-> "idle", maybe_prev |-> None, orig |-> NoName, todo |-> <<>>,
     cur |-> <<>>, files |-> {}, prev_files |-> NoFiles,
     bytes |-> 0, num |-> 0, total_bytes |-> 0, total_files |-> 0]

RunIdle ==
    /\ root = {} /\ gens = NoFiles /\ run = Idle /\ runlog = <<>>
    /\ rootAtStart = {} /\ renamed = FALSE /\ nruns = 0

-----------------------------------------------------------------------------
(* SpecWalk: one walk of any small tree with any of the three visitors *)

DefaultMinDiff == 1
DestBase == <<"bk", "work">>
PrevBase == <<"bk", "prev">>
SrcBases == {<<>>, <<"b">>}
ExclusionSets == SUBSET {"b"}
HandlerKinds == {"collector", "copy", "linkorcopy"}
WalkPriorMeta == [len |-> 1, modified |-> 0]

\* the sets of at most n paths, each no deeper than MaxDepth, closed under
\* Parent
RECURSIVE Shapes(_)
Shapes(n) ==
    IF n = 0 THEN {{}}
    ELSE LET S == Shapes(n - 1)
         IN  S \cup UNION {UNION {{T \cup {Append(p, nm)} : nm \in Names} :
                                  p \in {q \in T \cup {<<>>} : Len(q) < MaxDepth}} :
                           T \in S}

\* only a directory has entries
Trees(n) ==
    UNION {{k \in [T -> Kinds] :
              \A q \in T : Len(q) > 1 => k[Parent(q)] = "dir"} :
           T \in Shapes(n)}

FilesOf(t) == {q \in DOMAIN t : t[q] = "file"}

EmptyDest == [dirs |-> Prefixes(DestBase), files |-> NoFiles]

WalkIdle ==
    /\ tree = NoFiles /\ src_base_dir = <<>> /\ excluded = {}
    /\ handler = NewHandler("none", <<>>, <<>>, <<>>, NoFiles, 0)
    /\ dest = EmptyDest
    /\ dirs = <<>> /\ iter = NoIter /\ calls = <<>> /\ reads = <<>>
    /\ raised = <<>> /\ result = ReturnedOk

DecIdle == dIn = NoInput /\ dOut = "none" /\ dBy = "none"

FsIdle ==
    /\ clock = 0 /\ copy_keeps_mtime = FALSE /\ srcMeta = NoFiles
    /\ stored = NoFiles /\ firstMeta = NoFiles /\ phase = "none"

\* the caller has created the working directory only; the work-list holds
\* the root
WalkInit ==
    /\ DecIdle /\ FsIdle /\ RunIdle
    /\ tree \in Trees(MaxEntries)
    /\ src_base_dir \in SrcBases
    /\ excluded \in ExclusionSets
    /\ \E kind \in HandlerKinds, K \in {{}, FilesOf(tree)} :
         LET prev_dir == LeafDirUnder(src_base_dir, PrevBase)
         IN  /\ kind # "linkorcopy" => K = {}
             /\ handler = NewHandler(kind, src_base_dir,
                                     LeafDirUnder(src_base_dir, DestBase),
                                     prev_dir,
                                     [k \in {prev_dir \o q : q \in K}
                                        |-> WalkPriorMeta],
                                     DefaultMinDiff)
    /\ dest = EmptyDest
    /\ dirs = <<<<>>>>
    /\ iter = NoIter
    /\ calls = <<>> /\ reads = <<>> /\ raised = <<>>
    /\ result = Running

WalkNext ==
    \/ ReadDir \/ ReadDirFails \/ EntryFails \/ MetadataFails
    \/ SkipExcluded \/ VisitDir \/ VisitFile \/ SkipOther \/ ReturnOk

SpecWalk == WalkInit /\ [][WalkNext]_vars

-----------------------------------------------------------------------------
(* SpecScan: the walk of a larger tree by the scanner of a generation       *)
(* (CollectorFileHandler), which changes nothing on disk                   *)

ScanInit ==
    /\ DecIdle /\ FsIdle /\ RunIdle
    /\ tree \in Trees(MaxScanEntries)
    /\ src_base_dir = PrevBase
    /\ excluded \in ExclusionSets
    /\ handler = NewHandler("collector", src_base_dir, <<>>, <<>>, NoFiles, 0)
    /\ dest = EmptyDest
    /\ dirs = <<<<>>>>
    /\ iter = NoIter
    /\ calls = <<>> /\ reads = <<>> /\ raised = <<>>
    /\ result = Running

SpecScan == ScanInit /\ [][WalkNext]_vars


-----------------------------------------------------------------------------
(* SpecTwoRuns: a first run that copies a directory of files into           *)
(* generation A, then a second run over the same source with generation A  *)
(* as its prior generation (the visitors of files.rs)                      *)

TwoSrc == <<"b">>
TwoDirRel == <<"d">>
TwoFiles == {<<"d", "f">>, <<"d", "g">>}
TwoDestDir == LeafDirUnder(TwoSrc, DestBase)
TwoPrevDir == LeafDirUnder(TwoSrc, PrevBase)

\* std::fs::copy writes a new file: its length is the source's, its
\* modification time is the source's where the platform's copy keeps it
\* (CopyFileEx, fclonefileat) and the time of the copy where it does not
CopiedFileMeta(meta, now, keeps) ==
    [len |-> meta.len, modified |-> IF keeps THEN meta.modified.t ELSE now]

\* Metadata as the handlers see it: len() and the Result of modified()
AsMetadata(fm) == [len |-> fm.len, modified |-> OkTime(fm.modified)]

\* std::fs::rename of the working directory: what was stored under it is now
\* under the final name
Rebase(m, from, to) ==
    [k \in {to \o SubSeq(q, Len(from) + 1, Len(q)) : q \in DOMAIN m}
       |-> m[from \o SubSeq(k, Len(to) + 1, Len(k))]]

Handled(q) == \E i \in 1..Len(calls) : calls[i].path = q

TwoInit ==
    /\ DecIdle /\ RunIdle
    /\ tree = [q \in TwoFiles \cup {TwoDirRel} |->
                  IF q = TwoDirRel THEN "dir" ELSE "file"]
    /\ src_base_dir = TwoSrc
    /\ excluded = {}
    /\ \E m \in 0..MaxMinDiff :
         handler = NewHandler("copy", TwoSrc, TwoDestDir, TwoPrevDir, NoFiles, m)
    /\ dest = EmptyDest
    /\ dirs = <<>> /\ iter = NoIter /\ reads = <<>> /\ raised = <<>>
    /\ calls = <<>>
    /\ result = Running
    /\ clock = 0
    /\ copy_keeps_mtime \in BOOLEAN
    /\ srcMeta = [q \in TwoFiles |-> [len |-> 1, modified |-> 0]]
    /\ stored = NoFiles
    /\ firstMeta = NoFiles
    /\ phase = "first"

\* time passes
TwoTick ==
    /\ phase \in {"first", "between", "second"}
    /\ clock < MaxTick
    /\ clock' = clock + 1
    /\ UNCHANGED <<decVars, walkVars, runVars, copy_keeps_mtime, srcMeta,
                   stored, firstMeta, phase>>

\* between the runs a source file is written or touched
TwoModify ==
    /\ phase = "between"
    /\ \E q \in TwoFiles, len \in Lens, t \in 0..clock :
         /\ srcMeta[q] # [len |-> len, modified |-> t]
         /\ srcMeta' = [srcMeta EXCEPT ![q] = [len |-> len, modified |-> t]]
    /\ UNCHANGED <<decVars, walkVars, runVars, clock, copy_keeps_mtime,
                   stored, firstMeta, phase>>

\* the walk presents the directory to the visitor of the run
TwoDir ==
    /\ phase \in {"first", "second"} /\ result = Running
    /\ ~Handled(TwoDirRel)
    /\ \E io \in IoOutcomes :
         LET r == HandlerDir(handler, dest, TwoDirRel, io)
         IN  /\ dest' = r.dest
             /\ calls' = Append(calls, r.event)
             /\ result' = IF r.ok THEN Running
                          ELSE QuestionMark([step |-> "dir", path |-> TwoDirRel])
    /\ UNCHANGED <<decVars, fsVars, runVars, tree, src_base_dir, excluded,
                   handler, dirs, iter, reads, raised>>

\* the walk presents a file of the directory to the visitor of the run
TwoFile ==
    /\ phase \in {"first", "second"} /\ result = Running
    /\ Handled(TwoDirRel)
    /\ \E q \in TwoFiles, io \in IoOutcomes :
         /\ ~Handled(q)
         /\ LET meta == AsMetadata(srcMeta[q])
                r == HandlerFile(handler, dest, q, meta, io)
                dest_path == handler.dest_dir \o q
            IN  /\ handler' = r.handler
                /\ dest' = r.dest
                /\ calls' = Append(calls, r.event)
                /\ result' = IF r.ok THEN Running
                             ELSE QuestionMark([step |-> "file", path |-> q])
                /\ stored' = IF r.event.did = "copied"
                             THEN (dest_path :>
                                     CopiedFileMeta(meta, clock, copy_keeps_mtime))
                                  @@ stored
                             ELSE stored
                /\ firstMeta' = IF r.event.did = "copied" /\ phase = "first"
                                THEN (q :> srcMeta[q]) @@ firstMeta
                                ELSE firstMeta
    /\ UNCHANGED <<decVars, runVars, tree, src_base_dir, excluded, dirs, iter,
                   reads, raised, clock, copy_keeps_mtime, srcMeta, phase>>

\* the first walk returned Ok: the working directory becomes generation A
TwoEndFirst ==
    /\ phase = "first" /\ result = Running
    /\ \A q \in TwoFiles : Handled(q)
    /\ stored' = Rebase(stored, DestBase, PrevBase)
    /\ phase' = "between"
    /\ result' = ReturnedOk
    /\ UNCHANGED <<decVars, runVars, tree, src_base_dir, excluded, handler,
                   dest, dirs, iter, calls, reads, raised, clock,
                   copy_keeps_mtime, srcMeta, firstMeta>>

\* the second run scans generation A with a CollectorFileHandler
TwoScan ==
    /\ phase = "between"
    /\ phase' = "scan"
    /\ handler' = NewHandler("collector", PrevBase, <<>>, <<>>, NoFiles,
                             handler.min_diff_secs)
    /\ UNCHANGED <<decVars, runVars, tree, src_base_dir, excluded, dest, dirs,
                   iter, calls, reads, raised, result, clock, copy_keeps_mtime,
                   srcMeta, stored, firstMeta>>

\* the scan presents a stored copy to CollectorFileHandler::file
TwoScanFile ==
    /\ phase = "scan"
    /\ \E k \in DOMAIN stored \ DOMAIN handler.files :
         LET rel == SubSeq(k, Len(PrevBase) + 1, Len(k))
             r == CollectorFile(handler, dest, rel, AsMetadata(stored[k]))
         IN  handler' = r.handler
    /\ UNCHANGED <<decVars, fsVars, runVars, tree, src_base_dir, excluded,
                   dest, dirs, iter, calls, reads, raised, result>>

\* the scan returned: the second walk starts with a LinkOrCopyFileHandler in
\* a fresh working directory
TwoStartSecond ==
    /\ phase = "scan"
    /\ DOMAIN stored \subseteq DOMAIN handler.files
    /\ phase' = "second"
    /\ handler' = NewHandler("linkorcopy", TwoSrc, TwoDestDir, TwoPrevDir,
                             handler.files, handler.min_diff_secs)
    /\ dest' = EmptyDest
    /\ calls' = <<>>
    /\ result' = Running
    /\ UNCHANGED <<decVars, runVars, tree, src_base_dir, excluded, dirs, iter,
                   reads, raised, clock, copy_keeps_mtime, srcMeta, stored,
                   firstMeta>>

\* the second walk returned Ok
TwoEndSecond ==
    /\ phase = "second" /\ result = Running
    /\ \A q \in TwoFiles : Handled(q)
    /\ phase' = "done"
    /\ result' = ReturnedOk
    /\ UNCHANGED <<decVars, runVars, tree, src_base_dir, excluded, handler,
                   dest, dirs, iter, calls, reads, raised, clock,
                   copy_keeps_mtime, srcMeta, stored, firstMeta>>

TwoNext ==
    \/ TwoTick \/ TwoModify \/ TwoDir \/ TwoFile \/ TwoEndFirst \/ TwoScan
    \/ TwoScanFile \/ TwoStartSecond \/ TwoEndSecond

SpecTwoRuns == TwoInit /\ [][TwoNext]_vars


-----------------------------------------------------------------------------
(* SpecRuns: runs of main, one after the other, in one backup root *)

RunSrcDirs == <<<<"s1">>, <<"s2">>>>
RunSrcFiles == {<<"s1", "f">>, <<"s2", "f">>}
Foreign == DirName(1, ".old")

\* files::get_files_recursive(..).files for a source directory: the regular
\* files below it with the FileMeta read from the file system
SrcFilesRecursive(base) ==
    [q \in {x \in DOMAIN srcMeta : IsPrefix(base, x)} |-> srcMeta[q]]

\* files::get_files_recursive(..).files for a generation
GenFilesRecursive(name) ==
    [k \in {<<name>> \o rel : rel \in DOMAIN gens[name]}
       |-> gens[name][SubSeq(k, 2, Len(k))]]

RunsInit ==
    /\ DecIdle /\ WalkIdle
    /\ clock = 0
    /\ copy_keeps_mtime \in BOOLEAN
    /\ srcMeta = [q \in RunSrcFiles |-> [len |-> 1, modified |-> 0]]
    /\ stored = NoFiles /\ firstMeta = NoFiles /\ phase = "none"
    /\ root \in {{}, {Foreign}}
    /\ gens = [n \in root |-> NoFiles]
    /\ run = Idle
    /\ runlog = <<>> /\ rootAtStart = {} /\ renamed = FALSE
    /\ nruns = 0

RunFrame == UNCHANGED <<decVars, walkVars, copy_keeps_mtime, srcMeta, stored,
                        firstMeta, phase>>

\* time passes between two runs
RunTick ==
    /\ run.pc = "idle"
    /\ clock < MaxTick
    /\ clock' = clock + 1
    /\ RunFrame
    /\ UNCHANGED runVars

\* lines 64-89: main lists the backup root and picks the prior generation
GetDirs ==
    /\ run.pc = "idle" /\ nruns < MaxRuns
    /\ nruns' = nruns + 1
    /\ runlog' = <<>>
    /\ renamed' = FALSE
    /\ rootAtStart' = root
    /\ run' = [Idle EXCEPT !.pc = "create",
                           !.maybe_prev = maybe_prev_base_dir(get_dirs(root))]
    /\ RunFrame
    /\ UNCHANGED <<clock, root, gens>>

\* lines 65-73: get_dirs answers an error, main returns
GetDirsFails ==
    /\ run.pc = "idle" /\ nruns < MaxRuns
    /\ nruns' = nruns + 1
    /\ UNCHANGED <<run, runlog, renamed, rootAtStart>>
    /\ RunFrame
    /\ UNCHANGED <<clock, root, gens>>

\* lines 91-115: the working directory is created unless it exists
CreateWorking ==
    /\ run.pc = "create"
    /\ LET orig == orig_name(clock)
           working == progress_name(orig)
       IN  \E io \in IoOutcomes :
             IF working \in root
             THEN /\ io = "ok"
                  /\ run' = [run EXCEPT !.pc = "scan", !.orig = orig]
                  /\ UNCHANGED <<root, gens>>
             ELSE IF io = "ok"
                  THEN /\ root' = root \cup {working}
                       /\ gens' = (working :> NoFiles) @@ gens
                       /\ run' = [run EXCEPT !.pc = "scan", !.orig = orig]
                  ELSE /\ run' = Idle
                       /\ UNCHANGED <<root, gens>>
    /\ rootAtStart' = IF run'.pc = "idle" THEN {} ELSE rootAtStart
    /\ RunFrame
    /\ UNCHANGED <<clock, runlog, renamed, nruns>>

\* lines 116-136: the prior generation is scanned, or there is none
ScanPrior ==
    /\ run.pc = "scan"
    /\ \E io \in IoOutcomes :
         IF run.maybe_prev.some
         THEN IF io = "ok"
              THEN run' = [run EXCEPT
                             !.pc = "srcdir", !.todo = RunSrcDirs,
                             !.prev_files = GenFilesRecursive(run.maybe_prev.name)]
              ELSE run' = Idle
         ELSE /\ io = "ok"
              /\ run' = [run EXCEPT !.pc = "srcdir", !.todo = RunSrcDirs,
                                    !.prev_files = NoFiles]
    /\ rootAtStart' = IF run'.pc = "idle" THEN {} ELSE rootAtStart
    /\ RunFrame
    /\ UNCHANGED <<clock, root, gens, runlog, renamed, nruns>>

\* lines 140-197: the next source directory is listed and its directories
\* are created in the working directory; either step may fail, main returns
BeginSrcDir ==
    /\ run.pc = "srcdir" /\ run.todo # <<>>
    /\ \E io \in IoOutcomes :
         IF io = "ok"
         THEN run' = [run EXCEPT
                        !.pc = "files", !.cur = Head(run.todo),
                        !.todo = Tail(run.todo),
                        !.files = DOMAIN SrcFilesRecursive(Head(run.todo)),
                        !.bytes = 0, !.num = 0]
         ELSE run' = Idle
    /\ rootAtStart' = IF run'.pc = "idle" THEN {} ELSE rootAtStart
    /\ runlog' = IF run'.pc = "idle" THEN <<>> ELSE runlog
    /\ RunFrame
    /\ UNCHANGED <<clock, root, gens, renamed, nruns>>

RunEvent(src_path, did) == [path |-> src_path, did |-> did]

\* one turn of the loop of copy_files (lines 330-345) or of
\* copy_or_hardlink_files (lines 363-424): an error is printed and the loop
\* goes on
FileStep ==
    /\ run.pc = "files" /\ run.files # {}
    /\ \E src_path \in run.files, io \in IoOutcomes :
         LET working == progress_name(run.orig)
             src_meta == SrcFilesRecursive(run.cur)[src_path]
             src_file == SubSeq(src_path, Len(run.cur) + 1, Len(src_path))
             leaf == <<FileName(run.cur)>>
             dest_rel == leaf \o src_file
             prev_path == <<run.maybe_prev.name>> \o leaf \o src_file
             copy == IF run.maybe_prev.some
                     THEN MainCopyDecision(run.prev_files, prev_path, src_meta,
                                           DefaultMinDiff)
                     ELSE TRUE
             link_ok == io = "ok" /\ dest_rel \notin DOMAIN gens[working]
         IN  /\ IF copy
                THEN IF io = "ok"
                     THEN /\ gens' = [gens EXCEPT ![working] =
                                        (dest_rel :>
                                           CopiedFileMeta(AsMetadata(src_meta),
                                                          clock, copy_keeps_mtime))
                                        @@ @]
                          /\ run' = [run EXCEPT !.files = @ \ {src_path},
                                                !.bytes = @ + src_meta.len,
                                                !.num = @ + 1]
                          /\ runlog' = Append(runlog, RunEvent(src_path, "copied"))
                     ELSE /\ run' = [run EXCEPT !.files = @ \ {src_path}]
                          /\ runlog' = Append(runlog,
                                              RunEvent(src_path, "copy_failed"))
                          /\ UNCHANGED gens
                ELSE IF link_ok
                     THEN /\ gens' = [gens EXCEPT ![working] =
                                        (dest_rel :> run.prev_files[prev_path])
                                        @@ @]
                          /\ run' = [run EXCEPT !.files = @ \ {src_path}]
                          /\ runlog' = Append(runlog, RunEvent(src_path, "linked"))
                     ELSE /\ run' = [run EXCEPT !.files = @ \ {src_path}]
                          /\ runlog' = Append(runlog,
                                              RunEvent(src_path, "link_failed"))
                          /\ UNCHANGED gens
    /\ RunFrame
    /\ UNCHANGED <<clock, root, rootAtStart, renamed, nruns>>

\* lines 209-210: the statistics of the source directory are added up
EndSrcDir ==
    /\ run.pc = "files" /\ run.files = {}
    /\ run' = [run EXCEPT !.pc = "srcdir",
                          !.total_bytes = @ + run.bytes,
                          !.total_files = @ + run.num]
    /\ RunFrame
    /\ UNCHANGED <<clock, root, gens, runlog, rootAtStart, renamed, nruns>>

\* lines 219-228: after the last source directory the working directory is
\* renamed to its final name; rename fails onto a name that is taken
Rename ==
    /\ run.pc = "srcdir" /\ run.todo = <<>>
    /\ LET working == progress_name(run.orig)
       IN  \E io \in IoOutcomes :
             IF io = "ok" /\ run.orig \notin root
             THEN /\ root' = (root \ {working}) \cup {run.orig}
                  /\ gens' = [n \in (root \ {working}) \cup {run.orig} |->
                                IF n = run.orig THEN gens[working] ELSE gens[n]]
                  /\ renamed' = TRUE
             ELSE UNCHANGED <<root, gens, renamed>>
    /\ run' = [run EXCEPT !.pc = "stats"]
    /\ RunFrame
    /\ UNCHANGED <<clock, runlog, rootAtStart, nruns>>

\* lines 230-279: the statistics are printed and written, and main returns
WriteStats ==
    /\ run.pc = "stats"
    /\ run' = Idle
    /\ runlog' = <<>>
    /\ rootAtStart' = {}
    /\ renamed' = FALSE
    /\ RunFrame
    /\ UNCHANGED <<clock, root, gens, nruns>>

RunsNext ==
    \/ RunTick \/ GetDirs \/ GetDirsFails \/ CreateWorking \/ ScanPrior
    \/ BeginSrcDir \/ FileStep \/ EndSrcDir \/ Rename \/ WriteStats

SpecRuns == RunsInit /\ [][RunsNext]_vars

-----------------------------------------------------------------------------
(* SpecDecide: every input of the decision, then the decision *)

DecRel == {<<"f">>, <<"d", "f">>}
DecPrevDir == <<"prev">>
FileMetas == [len : Lens, modified : Ticks]
\* prior mappings: any subset of the prior paths, each with any record
DecPriors ==
    UNION {[K -> FileMetas] : K \in SUBSET {DecPrevDir \o r : r \in DecRel}}

DecInputs ==
    [prev_files : DecPriors, rel : DecRel, len : Lens,
     modified : {OkTime(t) : t \in Ticks} \cup {NoTime},
     min_diff_secs : 0..MaxMinDiff]

DecInit ==
    /\ WalkIdle /\ FsIdle /\ RunIdle
    /\ dIn \in DecInputs
    /\ dOut = "none"
    /\ dBy = "none"

\* the file is presented to LinkOrCopyFileHandler::file
DecideHandler ==
    /\ dOut = "none"
    /\ dOut' = Verdict(LinkOrCopyDecision(dIn.prev_files, DecPrevDir \o dIn.rel,
                                          dIn.len, dIn.modified,
                                          dIn.min_diff_secs))
    /\ dBy' = "handler"
    /\ UNCHANGED <<dIn, walkVars, fsVars, runVars>>

\* the file is presented to copy_or_hardlink_files; its FileMeta was
\* collected with a modification time
DecideMain ==
    /\ dOut = "none"
    /\ dIn.modified.ok
    /\ dOut' = Verdict(MainCopyDecision(dIn.prev_files, DecPrevDir \o dIn.rel,
                                        [len |-> dIn.len,
                                         modified |-> dIn.modified.t],
                                        dIn.min_diff_secs))
    /\ dBy' = "main"
    /\ UNCHANGED <<dIn, walkVars, fsVars, runVars>>

DecNext == DecideHandler \/ DecideMain

SpecDecide == DecInit /\ [][DecNext]_vars

-----------------------------------------------------------------------------
(* C1 *)

\* the two modification times cannot be compared: one is unobtainable or
\* lies before the reference epoch
C1_Incomparable(src_modified, prev_modified) ==
    \/ ~src_modified.ok
    \/ src_modified.t < UNIX_EPOCH
    \/ prev_modified < UNIX_EPOCH

C1_WholeSecs(t) == t \div TicksPerSec

C1_AbsDiff(a, b) == IF a > b THEN a - b ELSE b - a

C1_CopyCase(in) ==
    LET prev_path == DecPrevDir \o in.rel
    IN  \/ prev_path \notin DOMAIN in.prev_files
        \/ in.len # in.prev_files[prev_path].len
        \/ C1_Incomparable(in.modified, in.prev_files[prev_path].modified)
        \/ C1_AbsDiff(C1_WholeSecs(in.modified.t),
                      C1_WholeSecs(in.prev_files[prev_path].modified))
             >= in.min_diff_secs

\* C1: the decision is COPY exactly when the file has no prior record, or the
\* lengths differ, or the whole-second modification times differ by at least
\* min_diff_secs, or the times cannot be compared; otherwise HARDLINK.
C1_CopyExactlyWhen ==
    dOut # "none" => ((dOut = "COPY") <=> C1_CopyCase(dIn))

-----------------------------------------------------------------------------
(* Helpers of the claims about a walk *)

IsUnder(a, q) == Len(a) < Len(q) /\ IsPrefix(a, q)
CallIdx == 1..Len(calls)
CallsOf(op, q) == {i \in CallIdx : calls[i].op = op /\ calls[i].path = q}
ReadsOf(q) == {i \in 1..Len(reads) : reads[i] = q}
\* no name on the way from the root down to q is excluded
Kept(q) == \A n \in 1..Len(q) : q[n] \notin excluded
BackupVisitor == handler.kind \in {"copy", "linkorcopy"}

RECURSIVE CopiedBytes(_)
CopiedBytes(log) ==
    IF log = <<>> THEN 0
    ELSE (IF log[1].did = "copied" THEN log[1].n ELSE 0) + CopiedBytes(Tail(log))

-----------------------------------------------------------------------------
(* C2 *)

\* C2: in the second run, a file that the first run copied into generation A
\* and that has the length and modification time it had then is hardlinked
\* to generation A's stored copy and is not counted as copied; the prior
\* record is the metadata of generation A's stored copy.  (Stated for
\* thresholds of at least one second: with min_diff_secs = 0 every file that
\* has a prior record is copied, as the option's help text says.)
C2_UnchangedIsHardlinked ==
    (phase \in {"second", "done"} /\ handler.min_diff_secs >= 1) =>
       \A i \in CallIdx :
          LET q == calls[i].path
          IN  (calls[i].op = "file" /\ q \in DOMAIN firstMeta
                 /\ srcMeta[q] = firstMeta[q]) =>
                /\ handler.prev_files[TwoPrevDir \o q] = stored[TwoPrevDir \o q]
                /\ calls[i].did \in {"linked", "link_failed"}
                /\ calls[i].did = "linked" =>
                      dest.files[TwoDestDir \o q] =
                         [how |-> "link", of |-> TwoPrevDir \o q]
                /\ handler.bytes_copied = CopiedBytes(calls)

-----------------------------------------------------------------------------
(* C3 *)

\* C3: whenever a backup visitor copies or hardlinks a file, the destination
\* directory that is to contain the file already exists.
C3_DirectoryBeforeFile ==
    BackupVisitor =>
        \A i \in CallIdx : calls[i].op = "file" => calls[i].parent_ok

-----------------------------------------------------------------------------
(* C4 *)

RunFailed(i) == runlog[i].did \in {"copy_failed", "link_failed"}

\* C4: in a run of main, the first failure to copy or to hardlink a file ends
\* the run: no file is copied or linked after it, and the working directory
\* is not renamed to the final name in a run in which a copy or a hardlink
\* failed.
C4_FirstFailureIsFatal ==
    /\ \A i \in 1..Len(runlog) : RunFailed(i) => i = Len(runlog)
    /\ (\E i \in 1..Len(runlog) : RunFailed(i)) => ~renamed

-----------------------------------------------------------------------------
(* C5 *)

\* C5: the first error a step of the walk returns is what the walk returns,
\* and after it no visitor call is made and no directory is read.
C5_FirstErrorEndsWalk ==
    /\ [](raised # <<>> => /\ Len(raised) = 1
                           /\ result = [tag |-> "Err", err |-> raised[1]])
    /\ [](result.tag = "Err" => raised # <<>>)
    /\ [][raised # <<>> => (calls' = calls /\ reads' = reads /\ dirs' = dirs)]_vars

\* a visitor's file operation failed while directories were still pending
C5_Witness ==
    /\ raised # <<>> /\ raised[1].step = "file"
    /\ dirs # <<>>
    /\ result.tag = "Err"

-----------------------------------------------------------------------------
(* C6 *)

\* C6: no visitor call is made for an entry below the root whose name, or the
\* name of a directory on the way down to it, is in the exclusion set; no
\* such directory is pushed or read; and after a successful backup walk the
\* destination holds nothing below dest_dir with an excluded name on its way.
C6_ExcludedNeverVisited ==
    /\ \A i \in CallIdx : Kept(calls[i].path)
    /\ \A i \in 1..Len(dirs) : Kept(dirs[i])
    /\ \A i \in 1..Len(reads) : Kept(reads[i])
    /\ (BackupVisitor /\ result = ReturnedOk) =>
          \A d \in dest.dirs \cup DOMAIN dest.files :
             IsUnder(handler.dest_dir, d) =>
                \A n \in (Len(handler.dest_dir) + 1)..Len(d) :
                   d[n] \notin excluded

\* a successful backup walk of a tree that holds an entry with an excluded
\* name below a directory that is kept, and something that was visited
C6_Witness ==
    /\ BackupVisitor /\ result = ReturnedOk
    /\ \E q \in DOMAIN tree : Len(q) = 2 /\ q[2] \in excluded /\ Kept(Parent(q))
    /\ calls # <<>>

-----------------------------------------------------------------------------
(* C7 *)

\* C7: files_copied is the number of file operations that ended in a
\* successful copy and bytes_copied the sum of the bytes those copies
\* reported; hardlinks, failed copies and dir operations add nothing.
C7_CountersCountCopies ==
    /\ handler.files_copied =
          Cardinality({i \in CallIdx : calls[i].did = "copied"})
    /\ handler.bytes_copied = CopiedBytes(calls)

\* a dir operation, a copy of more than one byte and a hardlink have been made
C7_Witness ==
    /\ \E i \in CallIdx : calls[i].op = "dir"
    /\ \E i \in CallIdx : calls[i].did = "copied" /\ calls[i].n > 1
    /\ \E i \in CallIdx : calls[i].did = "linked"

-----------------------------------------------------------------------------
(* C8 *)

\* two directories that were visited and have the same parent
Siblings(a, b) ==
    /\ a # b /\ Parent(a) = Parent(b)
    /\ CallsOf("dir", a) # {} /\ CallsOf("dir", b) # {}

AtOrUnder(a, q) == IsPrefix(a, q)

\* C8 as stated: between the dir call for A and a later call for an entry
\* under A there is no call for a sibling directory B or an entry under B.
C8_BlockFromDirCall ==
    \A a, b \in DOMAIN tree :
       Siblings(a, b) =>
          ~ \E i, j, k \in CallIdx :
               /\ i < j /\ j < k
               /\ calls[i].op = "dir" /\ calls[i].path = a
               /\ AtOrUnder(b, calls[j].path)
               /\ IsUnder(a, calls[k].path)

\* C8 amended: the calls for the entries under A form one contiguous block,
\* with no call for B or for an entry under B inside it.
C8_DescendantsContiguous ==
    \A a, b \in DOMAIN tree :
       Siblings(a, b) =>
          ~ \E i, j, k \in CallIdx :
               /\ i < j /\ j < k
               /\ IsUnder(a, calls[i].path)
               /\ AtOrUnder(b, calls[j].path)
               /\ IsUnder(a, calls[k].path)

\* a finished walk in which two sibling directories both had entries
\* visited, one of them at least two
C8_Witness ==
    /\ result = ReturnedOk
    /\ \E a, b \in DOMAIN tree :
          /\ Siblings(a, b)
          /\ Cardinality({i \in CallIdx : IsUnder(a, calls[i].path)}) >= 2
          /\ \E j \in CallIdx : IsUnder(b, calls[j].path)

-----------------------------------------------------------------------------
(* C9 *)

\* C9: when the walk returns Ok, every regular file that is kept was passed
\* to file exactly once, every directory that is kept was passed to dir and
\* read exactly once, the root was read once, and nothing else was passed to
\* the visitor or read.
C9_EachEntryOnce ==
    result = ReturnedOk =>
       /\ \A q \in DOMAIN tree :
            /\ Cardinality(CallsOf("file", q)) =
                  (IF tree[q] = "file" /\ Kept(q) THEN 1 ELSE 0)
            /\ Cardinality(CallsOf("dir", q)) =
                  (IF tree[q] = "dir" /\ Kept(q) THEN 1 ELSE 0)
            /\ Cardinality(ReadsOf(q)) =
                  (IF tree[q] = "dir" /\ Kept(q) THEN 1 ELSE 0)
       /\ Cardinality(ReadsOf(<<>>)) = 1
       /\ \A i \in CallIdx : calls[i].path \in DOMAIN tree
       /\ \A i \in 1..Len(reads) : reads[i] \in DOMAIN tree \cup {<<>>}

\* a successful walk of a tree with a kept file below a kept directory, a
\* second directory with an entry, and an entry that is neither file nor
\* directory
C9_Witness ==
    /\ result = ReturnedOk
    /\ \E q \in DOMAIN tree : Len(q) = 2 /\ tree[q] = "file" /\ Kept(q)
    /\ \E q \in DOMAIN tree : Len(q) = 3
    /\ \E q \in DOMAIN tree : tree[q] = "other" /\ Kept(q)

-----------------------------------------------------------------------------
(* C10 *)

\* the names of the backup root, as the run found it, that are a timestamp
\* and nothing more
WholeTimestamps == {n \in rootAtStart : n.tail = ""}

\* C10: in a run of main that has listed the backup root, the prior
\* generation is the directory with the greatest timestamp among those whose
\* whole name is a timestamp; a directory with the in-progress name of an
\* unfinished run is never the prior generation; and when no name is a
\* timestamp the prior mapping is empty and every file is copied, none
\* hardlinked.
C10_PriorIsLatestFinalized ==
    run.pc # "idle" =>
       /\ WholeTimestamps # {} =>
            /\ run.maybe_prev.some
            /\ run.maybe_prev.name \in WholeTimestamps
            /\ \A n \in WholeTimestamps : n.stamp <= run.maybe_prev.name.stamp
       /\ run.maybe_prev.some => run.maybe_prev.name.tail # "-inprogress"
       /\ WholeTimestamps = {} =>
            /\ ~run.maybe_prev.some
            /\ run.prev_files = NoFiles
            /\ \A i \in 1..Len(runlog) :
                  runlog[i].did \in {"copied", "copy_failed"}
            /\ (run.pc = "stats" /\ \A i \in 1..Len(runlog) : ~RunFailed(i)) =>
                  {runlog[i].path : i \in 1..Len(runlog)} = RunSrcFiles

\* a run that finds a finalized generation, the working directory of a later
\* run that was given up, and a directory whose name is a timestamp followed
\* by other text, and that hardlinks a file to the finalized generation
C10_Witness ==
    /\ run.pc = "files"
    /\ \E f \in WholeTimestamps, w \in rootAtStart :
          /\ w.tail = "-inprogress" /\ w.stamp > f.stamp
          /\ run.maybe_prev = Some(f)
    /\ Foreign \in rootAtStart
    /\ \E i \in 1..Len(runlog) : runlog[i].did = "linked"

=============================================================================
